---- MODULE Spec2Model ----
(***************************************************************************)
(* term-type: the typing session (state.go), the key handler of the        *)
(* typing box, and the countdown coordinator and page flow of main.go.     *)
(*                                                                         *)
(* Time is a whole number of seconds read from one clock, `now`.  The zero *)
(* time.Time is ZeroTime; the clock starts after it.                       *)
(*                                                                         *)
(* Spec        the application: key events, page flow, the countdown       *)
(*             goroutines and the update queue, in every interleaving.     *)
(* FairSpec    Spec with the scheduling the Go runtime and the event loop  *)
(*             give: goroutines run, queued updates run, time passes.      *)
(* SessionSpec one TestState driven by arbitrary calls of its methods.     *)
(* AnyTargetSpec  the same, for every target NewTestState accepts.         *)
(* SamplerSpec one TestState typed into while the progress sampler runs.   *)
(* PipeSpec    readPipedInput applied to what is piped into the program.   *)
(***************************************************************************)
EXTENDS Integers, Sequences, FiniteSets

VARIABLES
    sessions,      \* the TestState objects, by allocation number
    allocs,        \* how many TestState objects NewTestState has made
    currentState,  \* main.go currentState: a session, 0 = nil
    stopTimer,     \* main.go stopTimer: a channel, 0 = nil
    closed,        \* the stop channels that have been closed
    coord,         \* the countdown goroutine of each session: where it is
    updates,       \* the functions queued by QueueUpdateDraw, oldest first
    page,          \* the front page of tview.Pages
    resultsState,  \* the session the results page was last built for
    history,       \* the stored history: a sequence of Result records
    now,           \* the wall clock
    drv,           \* SessionSpec: what the driver has called so far
    snapshots,     \* SamplerSpec: the WPMSnapshots series of the session
    stdin,         \* PipeSpec: the piped data and what is made of it
    historyTable,  \* the rows of the table of the history page
    graph,         \* SamplerSpec: what WPMGraph.Draw has drawn
    wrap           \* WrapSpec: the word-wrap loop of TypingBox.Draw

vars == <<sessions, allocs, currentState, stopTimer, closed, coord, updates,
          page, resultsState, history, now, drv, snapshots, stdin,
          historyTable, graph, wrap>>

----------------------------------------------------------------------------
(* Bounds *)

MaxWords    == 1   \* largest word count of a test of the application
MaxLimit    == 1   \* largest time limit of a timed test, in seconds
MaxTime     == 3   \* the clock stops advancing here
MaxSessions == 2   \* tests started in one run of the application
MaxTarget   == 3   \* longest target text given to the session driver
MaxSamples  == 2   \* snapshots the sampler takes of one session
MaxSampled  == 2   \* longest target text of a sampled session
MaxRaw      == 4   \* most bytes piped into the program
MaxSeries   == 2   \* longest snapshot series given to the graph
MaxWrap     == 4   \* longest target text given to the word wrap
MaxWidth    == 3   \* widest inner rectangle of the typing box

ZeroTime == 0

\* the runes HandleChar is called with, and the rune of the key events of
\* the application
Chars    == {"a", "b", " "}
KeyRunes == {"a"}

\* the embedded word list (words.txt)
WordList == {<<"a">>}

WordCounts == 1..MaxWords
TimeLimits == 1..MaxLimit
Ids        == 1..MaxSessions

----------------------------------------------------------------------------
(* words.go *)

RECURSIVE Join(_)
Join(ws) ==
    IF Len(ws) = 0 THEN <<>>
    ELSE IF Len(ws) = 1 THEN ws[1]
    ELSE ws[1] \o <<" ">> \o Join(Tail(ws))

\* the texts pickWords(n) can return
pickWords(n) == { Join(ws) : ws \in [1..n -> WordList] }

----------------------------------------------------------------------------
(* state.go *)

NewTestState(target, timedMode, timeLimitSec, wordCount) ==
    [ Target       |-> target,
      Input        |-> <<>>,
      StartTime    |-> ZeroTime,
      EndTime      |-> ZeroTime,
      Started      |-> FALSE,
      Finished     |-> FALSE,
      TimedMode    |-> timedMode,
      TimeLimitSec |-> timeLimitSec,
      WordCount    |-> wordCount,
      PipedText    |-> <<>> ]

\* Finish that sets Finished and leaves EndTime alone
FinishUnstamped(s, t) ==
    IF ~s.Finished THEN [s EXCEPT !.Finished = TRUE] ELSE s

\* Finish without its guard: every call stamps EndTime again
FinishAgain(s, t) == [s EXCEPT !.Finished = TRUE, !.EndTime = t]

Finish(s, t) ==
    IF ~s.Finished
    THEN [s EXCEPT !.Finished = TRUE, !.EndTime = t]
    ELSE s

\* HandleChar without the check against the target length
HandleCharUnbounded(s, ch, t) ==
    IF s.Finished THEN s
    ELSE LET s1 == IF ~s.Started
                   THEN [s EXCEPT !.Started = TRUE, !.StartTime = t]
                   ELSE s
             s2 == [s1 EXCEPT !.Input = Append(@, ch)]
         IN  IF ~s2.TimedMode /\ Len(s2.Input) = Len(s2.Target)
             THEN Finish(s2, t)
             ELSE s2

\* HandleChar finishing in every mode once the text is typed
HandleCharAnyMode(s, ch, t) ==
    IF s.Finished THEN s
    ELSE LET s1 == IF ~s.Started
                   THEN [s EXCEPT !.Started = TRUE, !.StartTime = t]
                   ELSE s
         IN  IF Len(s1.Input) >= Len(s1.Target) THEN s1
             ELSE LET s2 == [s1 EXCEPT !.Input = Append(@, ch)]
                  IN  IF Len(s2.Input) = Len(s2.Target)
                      THEN Finish(s2, t)
                      ELSE s2

\* HandleChar finishing one character early
HandleCharEarly(s, ch, t) ==
    IF s.Finished THEN s
    ELSE LET s1 == IF ~s.Started
                   THEN [s EXCEPT !.Started = TRUE, !.StartTime = t]
                   ELSE s
         IN  IF Len(s1.Input) >= Len(s1.Target) THEN s1
             ELSE LET s2 == [s1 EXCEPT !.Input = Append(@, ch)]
                  IN  IF ~s2.TimedMode /\ Len(s2.Input) >= Len(s2.Target) - 1
                      THEN Finish(s2, t)
                      ELSE s2

\* HandleChar storing the expected rune in place of a wrong one
HandleCharCorrecting(s, ch, t) ==
    IF s.Finished THEN s
    ELSE LET s1 == IF ~s.Started
                   THEN [s EXCEPT !.Started = TRUE, !.StartTime = t]
                   ELSE s
         IN  IF Len(s1.Input) >= Len(s1.Target) THEN s1
             ELSE LET s2 == [s1 EXCEPT !.Input =
                                 Append(@, s1.Target[Len(s1.Input) + 1])]
                  IN  IF ~s2.TimedMode /\ Len(s2.Input) = Len(s2.Target)
                      THEN Finish(s2, t)
                      ELSE s2

HandleChar(s, ch, t) ==
    IF s.Finished THEN s
    ELSE LET s1 == IF ~s.Started
                   THEN [s EXCEPT !.Started = TRUE, !.StartTime = t]
                   ELSE s
         IN  IF Len(s1.Input) >= Len(s1.Target) THEN s1
             ELSE LET s2 == [s1 EXCEPT !.Input = Append(@, ch)]
                  IN  IF ~s2.TimedMode /\ Len(s2.Input) = Len(s2.Target)
                      THEN Finish(s2, t)
                      ELSE s2

\* HandleBackspace taking the session back to not started when it removes
\* the only character
HandleBackspaceResetting(s) ==
    IF s.Finished \/ Len(s.Input) = 0 THEN s
    ELSE IF Len(s.Input) = 1
         THEN [s EXCEPT !.Input = <<>>, !.Started = FALSE,
                        !.StartTime = ZeroTime]
         ELSE [s EXCEPT !.Input = SubSeq(@, 1, Len(@) - 1)]

\* HandleBackspace removing the first character instead of the last
HandleBackspaceFront(s) ==
    IF s.Finished \/ Len(s.Input) = 0 THEN s
    ELSE [s EXCEPT !.Input = Tail(@)]

HandleBackspace(s) ==
    IF s.Finished \/ Len(s.Input) = 0 THEN s
    ELSE [s EXCEPT !.Input = SubSeq(@, 1, Len(@) - 1)]

\* the first loop of HandleDeleteWord
RECURSIVE DropTrailingSpaces(_)
DropTrailingSpaces(in) ==
    IF Len(in) > 0 /\ in[Len(in)] = " "
    THEN DropTrailingSpaces(SubSeq(in, 1, Len(in) - 1))
    ELSE in

\* the second loop of HandleDeleteWord
RECURSIVE DropTrailingWord(_)
DropTrailingWord(in) ==
    IF Len(in) > 0 /\ in[Len(in)] # " "
    THEN DropTrailingWord(SubSeq(in, 1, Len(in) - 1))
    ELSE in

\* HandleDeleteWord erasing up to the last space of the target
HandleDeleteWordByTarget(s) ==
    IF s.Finished \/ Len(s.Input) = 0 THEN s
    ELSE [s EXCEPT !.Input =
            DropTrailingWord(DropTrailingSpaces(
                SubSeq(s.Target, 1, Len(s.Input)))) ]

\* HandleDeleteWord without its first loop
HandleDeleteWordOneLoop(s) ==
    IF s.Finished \/ Len(s.Input) = 0 THEN s
    ELSE [s EXCEPT !.Input = DropTrailingWord(@)]

HandleDeleteWord(s) ==
    IF s.Finished \/ Len(s.Input) = 0 THEN s
    ELSE [s EXCEPT !.Input = DropTrailingWord(DropTrailingSpaces(@))]

\* Elapsed without its check of Started
ElapsedUnstarted(s, t) ==
    IF s.Finished THEN s.EndTime - s.StartTime
    ELSE t - s.StartTime

\* Elapsed without its check of Finished
ElapsedAlwaysLive(s, t) ==
    IF ~s.Started THEN 0
    ELSE t - s.StartTime

\* in seconds
Elapsed(s, t) ==
    IF ~s.Started THEN 0
    ELSE IF s.Finished THEN s.EndTime - s.StartTime
    ELSE t - s.StartTime

\* TimeRemaining without the clamp at zero
TimeRemainingUnclamped(s, t) ==
    IF ~s.TimedMode \/ ~s.Started THEN s.TimeLimitSec
    ELSE s.TimeLimitSec - Elapsed(s, t)

TimeRemaining(s, t) ==
    IF ~s.TimedMode \/ ~s.Started THEN s.TimeLimitSec
    ELSE LET rem == s.TimeLimitSec - Elapsed(s, t)
         IN  IF rem < 0 THEN 0 ELSE rem

\* the loop of CorrectChars, from position i of Input on
RECURSIVE CorrectFrom(_, _, _)
CorrectFrom(in, target, i) ==
    IF i > Len(in) THEN 0
    ELSE (IF i <= Len(target) /\ in[i] = target[i] THEN 1 ELSE 0)
         + CorrectFrom(in, target, i + 1)

\* CorrectChars counting every typed position
CorrectCharsUncompared(s) ==
    Cardinality({ i \in 1..Len(s.Input) : i <= Len(s.Target) })

CorrectChars(s) == CorrectFrom(s.Input, s.Target, 1)

\* the loop of WrongChars, from position i of Input on
RECURSIVE WrongFrom(_, _, _)
WrongFrom(in, target, i) ==
    IF i > Len(in) THEN 0
    ELSE (IF i <= Len(target) /\ in[i] # target[i] THEN 1 ELSE 0)
         + WrongFrom(in, target, i + 1)

WrongChars(s) == WrongFrom(s.Input, s.Target, 1)

\* a float64 quotient n / d, kept exact: the fraction in lowest terms
RECURSIVE GCD(_, _)
GCD(a, b) == IF b = 0 THEN a ELSE GCD(b, a % b)

Frac(n, d) == LET g == GCD(n, d) IN <<n \div g, d \div g>>

\* WPM counting every typed character, right or wrong
WPMAllChars(s, t) ==
    LET elapsed == Elapsed(s, t)
    IN  IF elapsed = 0 THEN Frac(0, 1)
        ELSE Frac(Len(s.Input) * 60, 5 * elapsed)

\* (correct / 5) / minutes, with minutes = seconds / 60
WPM(s, t) ==
    LET elapsed == Elapsed(s, t)
    IN  IF elapsed = 0 THEN Frac(0, 1)
        ELSE Frac(CorrectChars(s) * 60, 5 * elapsed)

\* Accuracy relative to the length of the target
AccuracyOfTarget(s) ==
    LET total == Len(s.Input)
    IN  IF total = 0 THEN Frac(100, 1)
        ELSE Frac(CorrectChars(s) * 100, Len(s.Target))

Accuracy(s) ==
    LET total == Len(s.Input)
    IN  IF total = 0 THEN Frac(100, 1)
        ELSE Frac(CorrectChars(s) * 100, total)

----------------------------------------------------------------------------
(* Result and saveResult (history file) *)

Result(s, id) ==
    [ Session |-> id,            \* the session the record was computed from
      Correct |-> CorrectChars(s),
      Wrong   |-> WrongChars(s) ]

\* what the file system does in one call of saveResult
\*   load   loadHistory returned the stored records (or none, the file not
\*          existing) and no error
\*   write  MkdirAll, MarshalIndent and WriteFile returned no error
FileOutcomes == [ load : BOOLEAN, write : BOOLEAN ]

\* saveResult reporting the error of loadHistory and writing nothing
saveResultChecked(h, r, io) ==
    IF io.load /\ io.write THEN Append(h, r) ELSE h

\* results, _ := loadHistory(): after an error results is nil
saveResult(h, r, io) ==
    LET results == IF io.load THEN h ELSE <<>>
    IN  IF io.write THEN Append(results, r) ELSE h

----------------------------------------------------------------------------
(* buildHistory (history page): the rows of its table, first row first     *)

\* "Show newest first": for i, j := 0, len(results)-1; i < j; i, j = i+1, j-1
\* swaps results[i] and results[j] (the indices count from 1 here)
RECURSIVE swapEnds(_, _, _)
swapEnds(results, i, j) ==
    IF i < j
    THEN swapEnds([results EXCEPT ![i] = results[j], ![j] = results[i]],
                  i + 1, j - 1)
    ELSE results

\* buildHistory without the loop: the rows in the order of the file
buildHistoryStored(h, load) ==
    IF load THEN h ELSE <<>>

\* results, _ := loadHistory(): the records decoded from the file into a
\* slice of their own, nil after an error; then one row per record
buildHistory(h, load) ==
    LET results == IF load THEN h ELSE <<>>
    IN  swapEnds(results, 1, Len(results))

----------------------------------------------------------------------------
(* main.go: the variables of main and its closures.  A closure is an       *)
(* operator from the variables of main before the call to those after it.  *)

\* a TestState nothing refers to any more (and a session not yet made)
Nil == NewTestState(<<>>, FALSE, 0, 0)

Main ==
    [ ss   |-> sessions,
      n    |-> allocs,
      cur  |-> currentState,
      stop |-> stopTimer,
      cl   |-> closed,
      crd  |-> coord,
      pg   |-> page,
      rs   |-> resultsState,
      h    |-> history,
      tbl  |-> historyTable ]

\* the modes a test is started with: "time N" and the timed menu entries
\* come with a text of several words per second, "words N" with N words
TestModes ==
    [ timedMode : {TRUE},  timeLimitSec : TimeLimits, wordCount : {MaxWords} ]
    \cup
    [ timedMode : {FALSE}, timeLimitSec : {0},        wordCount : WordCounts ]

\* what readPipedInput returns: words separated by single spaces
PipedTexts == UNION { pickWords(n) : n \in WordCounts }

\* len(strings.Fields(text)) of such a text
Fields(text) == Cardinality({ i \in 1..Len(text) : text[i] = " " }) + 1

\* showResults giving up when the result cannot be saved
showResultsOrFail(m, io) ==
    IF m.cur = 0 THEN m
    ELSE LET fin == Finish(m.ss[m.cur], now)
         IN  IF ~io.write
             THEN [m EXCEPT !.ss[m.cur] = fin]
             ELSE [m EXCEPT !.ss[m.cur] = fin,
                            !.h  = saveResult(@, Result(fin, m.cur), io),
                            !.pg = "results",
                            !.rs = m.cur]

showResults(m, io) ==
    IF m.cur = 0 THEN m
    ELSE LET fin == Finish(m.ss[m.cur], now)
         IN  [m EXCEPT !.ss[m.cur] = fin,
                       !.h  = saveResult(@, Result(fin, m.cur), io),
                       !.pg = "results",
                       !.rs = m.cur]

\* if stopTimer != nil { close(stopTimer); stopTimer = nil }
\* (ticker is never assigned, so its branch is never taken)
closeStopTimer(m) ==
    IF m.stop # 0
    THEN [m EXCEPT !.cl = @ \cup {m.stop}, !.stop = 0]
    ELSE m

\* onEscape finishing the session it leaves
onEscapeFinishing(m) ==
    LET m1 == closeStopTimer(m)
    IN  [m1 EXCEPT !.ss[m.cur] = Finish(@, now), !.pg = "menu"]

\* onEscape leaving the coordinator running
onEscapeNoClose(m) == [m EXCEPT !.pg = "menu"]

\* the closures startTest builds
onFinish(m, io) == showResults(closeStopTimer(m), io)
onEscape(m)     == [closeStopTimer(m) EXCEPT !.pg = "menu"]

\* the closures startTestWithText builds
onFinishPiped(m, io) == showResults(m, io)
onEscapePiped(m)     == [m EXCEPT !.pg = "menu"]

\* startTest resetting the current TestState in place of making a new one:
\* what was typed and the timestamps stay
startTestKeeping(m, mode, target) ==
    LET m1  == closeStopTimer(m)
        id  == m.n + 1
        old == IF m.cur = 0 THEN Nil ELSE m.ss[m.cur]
    IN  [m1 EXCEPT !.ss[id]  = [old EXCEPT !.Target       = target,
                                           !.TimedMode    = mode.timedMode,
                                           !.TimeLimitSec = mode.timeLimitSec,
                                           !.WordCount    = mode.wordCount,
                                           !.Finished     = FALSE],
                   !.n       = id,
                   !.cur     = id,
                   !.pg      = "typing",
                   !.stop    = IF mode.timedMode THEN id ELSE 0,
                   !.crd[id] = IF mode.timedMode THEN "wait" ELSE "none"]

\* startTest, with the text pickWords returned; the stop channel and the
\* goroutine of a timed test carry the number of its session
startTest(m, mode, target) ==
    LET m1 == closeStopTimer(m)
        id == m.n + 1
    IN  [m1 EXCEPT !.ss[id]  = NewTestState(target, mode.timedMode,
                                            mode.timeLimitSec, mode.wordCount),
                   !.n       = id,
                   !.cur     = id,
                   !.pg      = "typing",
                   !.stop    = IF mode.timedMode THEN id ELSE 0,
                   !.crd[id] = IF mode.timedMode THEN "wait" ELSE "none"]

startTestWithText(m, text) ==
    LET id == m.n + 1
    IN  [m EXCEPT !.ss[id]  = [ NewTestState(text, FALSE, 0, Fields(text))
                                EXCEPT !.PipedText = text ],
                  !.n       = id,
                  !.cur     = id,
                  !.pg      = "typing"]

\* the sessions something still refers to: currentState (and the typing
\* box), a goroutine that has not returned, a queued function
Running == {"wait", "count", "queueFinish"}

Live(m, upd) ==
    { s \in Ids : \/ s = m.cur
                  \/ m.crd[s] \in Running
                  \/ \E i \in 1..Len(upd) : upd[i] = s }

\* the variables after a step of the event loop or of a goroutine; what
\* nothing refers to any more is dropped
Commit(m, upd) ==
    LET live == Live(m, upd) IN
    /\ sessions'     = [s \in Ids |-> IF s \in live THEN m.ss[s] ELSE Nil]
    /\ coord'        = [s \in Ids |-> IF s \in live THEN m.crd[s] ELSE "none"]
    /\ closed'       = m.cl \cap live
    /\ allocs'       = m.n
    /\ currentState' = m.cur
    /\ stopTimer'    = m.stop
    /\ page'         = m.pg
    /\ resultsState' = IF m.pg = "results" THEN m.rs ELSE 0
    /\ history'      = m.h
    /\ historyTable' = IF m.pg = "history" THEN m.tbl ELSE <<>>
    /\ updates'      = upd

\* showHistory: the history page is built anew and shown
showHistory(m, load) ==
    [m EXCEPT !.pg = "history", !.tbl = buildHistory(m.h, load)]

\* main: nothing is running yet
Boot ==
    [ ss   |-> [s \in Ids |-> Nil],
      n    |-> 0,
      cur  |-> 0,
      stop |-> 0,
      cl   |-> {},
      crd  |-> [s \in Ids |-> "none"],
      pg   |-> "menu",
      rs   |-> 0,
      h    |-> <<>>,
      tbl  |-> <<>> ]

\* main: the switch on the mode of the command line
Launched ==
    { Boot } \cup { showHistory(Boot, load) : load \in BOOLEAN }
    \cup UNION { { startTest(Boot, mode, target) :
                      target \in pickWords(mode.wordCount) } :
                    mode \in TestModes }
    \cup { startTestWithText(Boot, text) : text \in PipedTexts }

\* stdin is a terminal, not a pipe: readPipedInput returns "", false
NoStdin ==
    [ data |-> <<>>, text |-> <<>>, ok |-> FALSE, pc |-> "done",
      again |-> FALSE ]

\* what WPMGraph.Draw has put on the screen when it returns at once
Blank == [ wpmLine |-> {}, errLine |-> {}, labels |-> {}, legend |-> FALSE ]

\* no WPMGraph has been made
NoGraph ==
    [ snapshots |-> <<>>, width |-> 0, height |-> 0, pc |-> "none",
      drawn |-> Blank ]

\* TypingBox.Draw has not been called
NoWrap ==
    [ target |-> <<>>, width |-> 0, i |-> 0, lines |-> <<>>, pc |-> "none" ]

\* what the session driver has called so far
\*   chars         the runes of the HandleChar calls, while pure
\*   pure          only HandleChar was called, at most len(Target) times
\*   finishCalled  Finish was called from outside the session
\*   op, len, fin  the last call, and len(Input) and Finished before it
NoDriver ==
    [ chars |-> <<>>, pure |-> TRUE, finishCalled |-> FALSE,
      op |-> "none", len |-> 0, fin |-> FALSE ]

Init ==
    /\ now = 1
    /\ updates = <<>>
    /\ drv = NoDriver
    /\ snapshots = <<>>
    /\ stdin = NoStdin
    /\ graph = NoGraph
    /\ wrap = NoWrap
    /\ \E m \in Launched :
         /\ sessions = m.ss
         /\ allocs = m.n
         /\ currentState = m.cur
         /\ stopTimer = m.stop
         /\ closed = m.cl
         /\ coord = m.crd
         /\ page = m.pg
         /\ resultsState = m.rs
         /\ history = m.h
         /\ historyTable = m.tbl

----------------------------------------------------------------------------
(* TypingBox.InputHandler; the typing box on the "typing" page is the one  *)
(* built for currentState: every start of a test replaces both             *)

typingState == sessions[currentState]

Typing == page = "typing" /\ ~typingState.Finished

KeyRune(ch) ==
    /\ Typing
    /\ LET m == [Main EXCEPT !.ss[currentState] = HandleChar(@, ch, now)]
       IN  IF m.ss[currentState].Finished
           THEN \E io \in FileOutcomes :
                  Commit(IF typingState.PipedText = <<>>
                         THEN onFinish(m, io) ELSE onFinishPiped(m, io),
                         updates)
           ELSE Commit(m, updates)
    /\ UNCHANGED <<now, drv, snapshots, stdin, graph, wrap>>

KeyBackspace ==
    /\ Typing
    /\ Commit([Main EXCEPT !.ss[currentState] = HandleBackspace(@)], updates)
    /\ UNCHANGED <<now, drv, snapshots, stdin, graph, wrap>>

KeyCtrlW ==
    /\ Typing
    /\ Commit([Main EXCEPT !.ss[currentState] = HandleDeleteWord(@)], updates)
    /\ UNCHANGED <<now, drv, snapshots, stdin, graph, wrap>>

KeyEscape ==
    /\ Typing
    /\ Commit(IF typingState.PipedText = <<>>
              THEN onEscape(Main) ELSE onEscapePiped(Main), updates)
    /\ UNCHANGED <<now, drv, snapshots, stdin, graph, wrap>>

----------------------------------------------------------------------------
(* the menu, results and history pages *)

MenuStart ==
    /\ page = "menu"
    /\ allocs < MaxSessions
    /\ \E mode \in TestModes : \E target \in pickWords(mode.wordCount) :
         Commit(startTest(Main, mode, target), updates)
    /\ UNCHANGED <<now, drv, snapshots, stdin, graph, wrap>>

MenuHistory ==
    /\ page = "menu"
    /\ \E load \in BOOLEAN : Commit(showHistory(Main, load), updates)
    /\ UNCHANGED <<now, drv, snapshots, stdin, graph, wrap>>

\* Enter: the retry closure showResults builds
ResultsRetry ==
    /\ page = "results"
    /\ allocs < MaxSessions
    /\ LET s == sessions[currentState]
       IN  IF s.PipedText # <<>>
           THEN Commit(startTestWithText(Main, s.PipedText), updates)
           ELSE \E target \in pickWords(s.WordCount) :
                  Commit(startTest(Main,
                                   [ timedMode    |-> s.TimedMode,
                                     timeLimitSec |-> s.TimeLimitSec,
                                     wordCount    |-> s.WordCount ],
                                   target), updates)
    /\ UNCHANGED <<now, drv, snapshots, stdin, graph, wrap>>

\* Tab: the menu; h: the history
ResultsLeave ==
    /\ page = "results"
    /\ \/ Commit([Main EXCEPT !.pg = "menu"], updates)
       \/ \E load \in BOOLEAN : Commit(showHistory(Main, load), updates)
    /\ UNCHANGED <<now, drv, snapshots, stdin, graph, wrap>>

HistoryEscape ==
    /\ page = "history"
    /\ Commit([Main EXCEPT !.pg = "menu"], updates)
    /\ UNCHANGED <<now, drv, snapshots, stdin, graph, wrap>>

----------------------------------------------------------------------------
(* the countdown goroutine startTest starts for a timed test *)

\* the wait loop without its case <-stop
CoordWaitNoStop(s) ==
    /\ coord[s] = "wait"
    /\ sessions[s].Started
    /\ Commit([Main EXCEPT !.crd[s] = "count"], updates)
    /\ UNCHANGED <<now, drv, snapshots, stdin, graph, wrap>>

\* for !state.Started { select { case <-stop: return
\*                               case <-time.After(50ms): } }
CoordWait(s) ==
    /\ coord[s] = "wait"
    /\ IF sessions[s].Started
       THEN Commit([Main EXCEPT !.crd[s] = "count"], updates)
       ELSE s \in closed /\ Commit([Main EXCEPT !.crd[s] = "done"], updates)
    /\ UNCHANGED <<now, drv, snapshots, stdin, graph, wrap>>

\* case <-stop: return
CoordStop(s) ==
    /\ coord[s] = "count"
    /\ s \in closed
    /\ Commit([Main EXCEPT !.crd[s] = "done"], updates)
    /\ UNCHANGED <<now, drv, snapshots, stdin, graph, wrap>>

\* the tick testing TimeRemaining() < 0, which never holds
CoordTickStrict(s) ==
    /\ coord[s] = "count"
    /\ Commit([Main EXCEPT !.crd[s] =
                 IF sessions[s].Finished THEN "done"
                 ELSE IF TimeRemaining(sessions[s], now) < 0
                      THEN "queueFinish"
                      ELSE "count"], updates)
    /\ UNCHANGED <<now, drv, snapshots, stdin, graph, wrap>>

\* case <-t.C: the reads of state.Finished and state.TimeRemaining().
\* The function queued while time remains is empty and only redraws.
CoordTick(s) ==
    /\ coord[s] = "count"
    /\ Commit([Main EXCEPT !.crd[s] =
                 IF sessions[s].Finished THEN "done"
                 ELSE IF TimeRemaining(sessions[s], now) <= 0
                      THEN "queueFinish"
                      ELSE "count"], updates)
    /\ UNCHANGED <<now, drv, snapshots, stdin, graph, wrap>>

\* the goroutine calling onFinish itself instead of queueing it
CoordFinishDirect(s) ==
    /\ coord[s] = "queueFinish"
    /\ IF ~sessions[s].Finished
       THEN \E io \in FileOutcomes :
              Commit(onFinish([Main EXCEPT !.crd[s] = "done"], io), updates)
       ELSE Commit([Main EXCEPT !.crd[s] = "done"], updates)
    /\ UNCHANGED <<now, drv, snapshots, stdin, graph, wrap>>

\* app.QueueUpdateDraw(func() { if !state.Finished { onFinish() } }); return
CoordQueue(s) ==
    /\ coord[s] = "queueFinish"
    /\ Commit([Main EXCEPT !.crd[s] = "done"], Append(updates, s))
    /\ UNCHANGED <<now, drv, snapshots, stdin, graph, wrap>>

Coord(s) == CoordWait(s) \/ CoordStop(s) \/ CoordTick(s) \/ CoordQueue(s)

\* the event loop runs the oldest queued function, for the session s
RunUpdate ==
    /\ updates # <<>>
    /\ LET s == Head(updates)
       IN  IF ~sessions[s].Finished
           THEN \E io \in FileOutcomes : Commit(onFinish(Main, io), Tail(updates))
           ELSE Commit(Main, Tail(updates))
    /\ UNCHANGED <<now, drv, snapshots, stdin, graph, wrap>>

Tick ==
    /\ now < MaxTime
    /\ now' = now + 1
    /\ UNCHANGED <<sessions, allocs, currentState, stopTimer, closed, coord,
                   updates, page, resultsState, history, drv, snapshots,
                   stdin, historyTable, graph, wrap>>

Next ==
    \/ \E ch \in KeyRunes : KeyRune(ch)
    \/ KeyBackspace
    \/ KeyCtrlW
    \/ KeyEscape
    \/ MenuStart
    \/ MenuHistory
    \/ ResultsRetry
    \/ ResultsLeave
    \/ HistoryEscape
    \/ \E s \in Ids : Coord(s)
    \/ RunUpdate
    \/ Tick

Spec == Init /\ [][Next]_vars

FairSpec ==
    /\ Spec
    /\ WF_vars(Tick)
    /\ WF_vars(RunUpdate)
    /\ \A s \in Ids : WF_vars(Coord(s))

----------------------------------------------------------------------------
(* SessionSpec: one TestState, made by NewTestState and then driven by any *)
(* sequence of calls of its methods while time passes                      *)

\* the texts of at most n runes of the set chars
RECURSIVE Texts2(_, _)
Texts2(chars, n) ==
    IF n = 0 THEN { <<>> }
    ELSE Texts2(chars, n - 1) \cup
         { Append(t, c) : t \in { x \in Texts2(chars, n - 1) : Len(x) = n - 1 },
                          c \in chars }

RECURSIVE Texts(_)
Texts(n) ==
    IF n = 0 THEN { <<>> }
    ELSE Texts(n - 1) \cup
         { Append(t, c) : t \in { x \in Texts(n - 1) : Len(x) = n - 1 },
                          c \in Chars }

DrvTargets == Texts(MaxTarget) \ { <<>> }

DrvModes ==
    [ timedMode : {TRUE},  timeLimitSec : TimeLimits ]
    \cup [ timedMode : {FALSE}, timeLimitSec : {0} ]

session == sessions[1]

DrvInit ==
    /\ now = 1
    /\ updates = <<>>
    /\ drv = NoDriver
    /\ snapshots = <<>>
    /\ stdin = NoStdin
    /\ graph = NoGraph
    /\ wrap = NoWrap
    /\ \E target \in DrvTargets, mode \in DrvModes :
         sessions = [Boot.ss EXCEPT ![1] =
                       NewTestState(target, mode.timedMode, mode.timeLimitSec,
                                    Fields(target))]
    /\ allocs = 1
    /\ currentState = Boot.cur
    /\ stopTimer = Boot.stop
    /\ closed = Boot.cl
    /\ coord = Boot.crd
    /\ page = Boot.pg
    /\ resultsState = Boot.rs
    /\ history = Boot.h
    /\ historyTable = Boot.tbl

Called(op) == [drv EXCEPT !.op = op, !.len = Len(session.Input),
                          !.fin = session.Finished]

DrvCall(s1, d) ==
    /\ sessions' = [sessions EXCEPT ![1] = s1]
    /\ drv' = d
    /\ UNCHANGED <<allocs, currentState, stopTimer, closed, coord, updates,
                   page, resultsState, history, now, snapshots, stdin,
                   historyTable, graph, wrap>>

DrvHandleChar(ch) ==
    DrvCall(HandleChar(session, ch, now),
            IF drv.pure /\ Len(drv.chars) < Len(session.Target)
            THEN [Called("HandleChar") EXCEPT !.chars = Append(@, ch)]
            ELSE [Called("HandleChar") EXCEPT !.chars = <<>>, !.pure = FALSE])

DrvHandleBackspace ==
    DrvCall(HandleBackspace(session),
            [Called("HandleBackspace") EXCEPT !.chars = <<>>, !.pure = FALSE])

DrvHandleDeleteWord ==
    DrvCall(HandleDeleteWord(session),
            [Called("HandleDeleteWord") EXCEPT !.chars = <<>>, !.pure = FALSE])

DrvFinish ==
    DrvCall(Finish(session, now),
            [Called("Finish") EXCEPT !.chars = <<>>, !.pure = FALSE,
                                     !.finishCalled = TRUE])

DrvNext ==
    \/ \E ch \in Chars : DrvHandleChar(ch)
    \/ DrvHandleBackspace
    \/ DrvHandleDeleteWord
    \/ DrvFinish
    \/ Tick

SessionSpec == DrvInit /\ [][DrvNext]_vars

\* NewTestState takes any string: it has no check of the target, so a
\* caller can also make a session with the empty target
AnyTargets == Texts(MaxTarget)

AnyTargetInit ==
    /\ now = 1
    /\ updates = <<>>
    /\ drv = NoDriver
    /\ snapshots = <<>>
    /\ stdin = NoStdin
    /\ graph = NoGraph
    /\ wrap = NoWrap
    /\ \E target \in AnyTargets, mode \in DrvModes :
         sessions = [Boot.ss EXCEPT ![1] =
                       NewTestState(target, mode.timedMode, mode.timeLimitSec,
                                    IF target = <<>> THEN 0 ELSE Fields(target))]
    /\ allocs = 1
    /\ currentState = Boot.cur
    /\ stopTimer = Boot.stop
    /\ closed = Boot.cl
    /\ coord = Boot.crd
    /\ page = Boot.pg
    /\ resultsState = Boot.rs
    /\ history = Boot.h
    /\ historyTable = Boot.tbl

AnyTargetSpec == AnyTargetInit /\ [][DrvNext]_vars

----------------------------------------------------------------------------
(* SamplerSpec: the progress sampler, invoked at any moment while one      *)
(* TestState is typed into, finished and read.  The code that takes the    *)
(* snapshots is not part of the sources at hand: it is written from        *)
(* section 4.3 of the specification; the graph reads the series.           *)

\* one snapshot: (elapsedSeconds, currentWPM, currentWrongCount)
WPMSnapshot(s, t) ==
    [ Elapsed |-> Elapsed(s, t), WPM |-> WPM(s, t), Errors |-> WrongChars(s) ]

\* the sampler without its test of the state of the session
RecordSnapshotAlways(s, snaps, t) == Append(snaps, WPMSnapshot(s, t))

\* one invocation of the sampler: a snapshot is appended while the session
\* is in progress, nothing is done before the start and after the finish
RecordSnapshot(s, snaps, t) ==
    IF ~s.Started \/ s.Finished THEN snaps
    ELSE Append(snaps, WPMSnapshot(s, t))

\* the time axis ending at the first snapshot
GraphMaxTimeFirst(snaps) == snaps[1].Elapsed

\* WPMGraph.Draw: maxTime := g.snapshots[len(g.snapshots)-1].Elapsed
GraphMaxTime(snaps) == snaps[Len(snaps)].Elapsed

SmpCall(s1) ==
    /\ sessions' = [sessions EXCEPT ![1] = s1]
    /\ UNCHANGED <<allocs, currentState, stopTimer, closed, coord, updates,
                   page, resultsState, history, now, drv, snapshots, stdin,
                   historyTable, graph, wrap>>

SmpHandleChar(ch)  == SmpCall(HandleChar(session, ch, now))
SmpHandleBackspace == SmpCall(HandleBackspace(session))
SmpFinish          == SmpCall(Finish(session, now))

Sample ==
    /\ Len(snapshots) < MaxSamples
    /\ snapshots' = RecordSnapshot(session, snapshots, now)
    /\ UNCHANGED <<sessions, allocs, currentState, stopTimer, closed, coord,
                   updates, page, resultsState, history, now, drv, stdin,
                   historyTable, graph, wrap>>

SmpNext ==
    \/ \E ch \in Chars : SmpHandleChar(ch)
    \/ SmpHandleBackspace
    \/ SmpFinish
    \/ Sample
    \/ Tick

SmpTargets == Texts(MaxSampled) \ { <<>> }

SmpInit ==
    /\ DrvInit
    /\ session.Target \in SmpTargets

SamplerSpec == SmpInit /\ [][SmpNext]_vars

----------------------------------------------------------------------------
(* PipeSpec: readPipedInput on what is piped into the program; the text it *)
(* returns can be piped into the program again                             *)

\* the runes for which unicode.IsSpace holds
Spaces == {" ", "\n"}

\* the runes of the piped data
RawChars == {"a"} \cup Spaces

RawData == Texts2(RawChars, MaxRaw)

RECURSIVE TrimLeft(_)
TrimLeft(t) ==
    IF Len(t) > 0 /\ t[1] \in Spaces THEN TrimLeft(Tail(t)) ELSE t

RECURSIVE TrimRight(_)
TrimRight(t) ==
    IF Len(t) > 0 /\ t[Len(t)] \in Spaces
    THEN TrimRight(SubSeq(t, 1, Len(t) - 1))
    ELSE t

\* strings.TrimSpace
TrimSpace(t) == TrimRight(TrimLeft(t))

\* the loop over the runes of the trimmed text: b is the strings.Builder
RECURSIVE Collapse(_, _, _)
Collapse(text, b, inSpace) ==
    IF Len(text) = 0 THEN b
    ELSE IF Head(text) \in Spaces
         THEN Collapse(Tail(text),
                       IF ~inSpace THEN Append(b, " ") ELSE b, TRUE)
         ELSE Collapse(Tail(text), Append(b, Head(text)), FALSE)

\* readPipedInput without the call of strings.TrimSpace
readPipedInputUntrimmed(data) ==
    IF Len(data) = 0 THEN [ text |-> <<>>, ok |-> FALSE ]
    ELSE LET text == Collapse(data, <<>>, FALSE)
         IN  IF text = <<>> THEN [ text |-> <<>>, ok |-> FALSE ]
             ELSE [ text |-> text, ok |-> TRUE ]

\* readPipedInput on a pipe that holds data: the text and whether there
\* is one
readPipedInput(data) ==
    IF Len(data) = 0 THEN [ text |-> <<>>, ok |-> FALSE ]
    ELSE LET text == Collapse(TrimSpace(data), <<>>, FALSE)
         IN  IF text = <<>> THEN [ text |-> <<>>, ok |-> FALSE ]
             ELSE [ text |-> text, ok |-> TRUE ]

NotPiped ==
    UNCHANGED <<sessions, allocs, currentState, stopTimer, closed, coord,
                updates, page, resultsState, history, now, drv, snapshots,
                historyTable, graph, wrap>>

PipeInit ==
    /\ Init
    /\ currentState = Boot.cur
    /\ page = Boot.pg

PipeStart ==
    /\ stdin = NoStdin
    /\ \E data \in RawData :
         stdin' = [ data |-> data, text |-> <<>>, ok |-> FALSE,
                    pc |-> "read", again |-> FALSE ]
    /\ NotPiped

ReadPipedInput ==
    /\ stdin.pc = "read"
    /\ LET r == readPipedInput(stdin.data)
       IN  stdin' = [stdin EXCEPT !.text = r.text, !.ok = r.ok, !.pc = "done"]
    /\ NotPiped

\* the text of one run piped into the next
PipeAgain ==
    /\ stdin.pc = "done"
    /\ stdin.ok
    /\ ~stdin.again
    /\ stdin' = [ data |-> stdin.text, text |-> <<>>, ok |-> FALSE,
                  pc |-> "read", again |-> TRUE ]
    /\ NotPiped

PipeNext == PipeStart \/ ReadPipedInput \/ PipeAgain

PipeSpec == PipeInit /\ [][PipeNext]_vars

----------------------------------------------------------------------------
(* GraphSpec: WPMGraph.Draw on a snapshot series, in rectangles around the *)
(* sizes it tests for                                                      *)

\* main before anything is started: no test, no page but the menu
NoTest ==
    /\ now = 1
    /\ updates = <<>>
    /\ drv = NoDriver
    /\ snapshots = <<>>
    /\ stdin = NoStdin
    /\ sessions = Boot.ss
    /\ allocs = Boot.n
    /\ currentState = Boot.cur
    /\ stopTimer = Boot.stop
    /\ closed = Boot.cl
    /\ coord = Boot.crd
    /\ page = Boot.pg
    /\ resultsState = Boot.rs
    /\ history = Boot.h
    /\ historyTable = Boot.tbl

\* a step of drawing: nothing of main and of the sessions is touched
Drawing ==
    UNCHANGED <<sessions, allocs, currentState, stopTimer, closed, coord,
                updates, page, resultsState, history, now, drv, snapshots,
                stdin, historyTable>>

\* the snapshots of a series: a time, a speed, a number of wrong characters
GraphSnapshots ==
    [ Elapsed : 1..2, WPM : { Frac(0, 1), Frac(12, 1) }, Errors : 0..1 ]

\* the series a graph is made for: snapshots in the order of their times
RECURSIVE SeriesOf(_)
SeriesOf(n) ==
    IF n = 0 THEN { <<>> }
    ELSE LET shorter == SeriesOf(n - 1)
         IN  shorter \cup
             { Append(ss, s) : ss \in { x \in shorter : Len(x) = n - 1 },
                               s \in GraphSnapshots }

GraphSeries ==
    { ss \in SeriesOf(MaxSeries) :
        \A i \in 1..Len(ss) - 1 : ss[i].Elapsed <= ss[i + 1].Elapsed }

\* x, y, width, height := g.GetInnerRect()
GraphWidths  == { 9, 10, 11 }
GraphHeights == { 3, 4 }

\* Draw going on with a series of one snapshot
DrawAnySeries(snaps, width, height) ==
    IF Len(snaps) < 1 \/ width < 10 \/ height < 4 THEN Blank
    ELSE LET graphW == width - 5
             graphH == height - 1
             hasErrors == \E i \in 1..Len(snaps) : snaps[i].Errors > 0
             segments == 1..(Len(snaps) - 1)
         IN  IF graphW < 4 \/ graphH < 2 THEN Blank
             ELSE [ wpmLine |-> segments,
                    errLine |-> IF hasErrors THEN segments ELSE {},
                    labels  |-> {"top", "bottom", "0s"}
                                \cup (IF graphH > 2 THEN {"mid"} ELSE {})
                                \cup (IF graphW - 2 > 2 + 1 THEN {"end"}
                                                            ELSE {}),
                    legend  |-> hasErrors ]

\* WPMGraph.Draw: what it puts on the screen
\*   wpmLine, errLine  the segments plotted, segment i from snapshot i to
\*                     snapshot i + 1 (the error line only if hasErrors)
\*   labels            the axis labels written; the end label, "%.0fs" of a
\*                     time below 10, is 2 wide and written if it is clear
\*                     of the start label "0s"
\*   legend            the legend, written if hasErrors
Draw(snaps, width, height) ==
    IF Len(snaps) < 2 \/ width < 10 \/ height < 4 THEN Blank
    ELSE LET graphW == width - 5
             graphH == height - 1
             hasErrors == \E i \in 1..Len(snaps) : snaps[i].Errors > 0
             segments == 1..(Len(snaps) - 1)
         IN  IF graphW < 4 \/ graphH < 2 THEN Blank
             ELSE [ wpmLine |-> segments,
                    errLine |-> IF hasErrors THEN segments ELSE {},
                    labels  |-> {"top", "bottom", "0s"}
                                \cup (IF graphH > 2 THEN {"mid"} ELSE {})
                                \cup (IF graphW - 2 > 2 + 1 THEN {"end"}
                                                            ELSE {}),
                    legend  |-> hasErrors ]

\* NewWPMGraph(snapshots)
GraphInit ==
    /\ NoTest
    /\ wrap = NoWrap
    /\ \E ss \in GraphSeries :
         graph = [NoGraph EXCEPT !.snapshots = ss, !.pc = "new"]

\* the screen is drawn, and drawn again when the terminal is resized
DrawGraph ==
    /\ graph.pc \in {"new", "drawn"}
    /\ \E width \in GraphWidths, height \in GraphHeights :
         graph' = [graph EXCEPT !.width = width, !.height = height,
                                !.pc = "drawn",
                                !.drawn = Draw(graph.snapshots, width, height)]
    /\ wrap' = wrap
    /\ Drawing

GraphNext == DrawGraph

GraphSpec == GraphInit /\ [][GraphNext]_vars

----------------------------------------------------------------------------
(* WrapSpec: the word wrap of TypingBox.Draw, one line of the text at a    *)
(* step.  Indices into the target count from 0, as in the code.            *)

WrapTargets == Texts(MaxWrap)
WrapWidths  == 0..MaxWidth

\* for i < len(target) && col < width: lastSpace follows the spaces met
RECURSIVE scanLine(_, _, _, _, _)
scanLine(target, width, i, col, lastSpace) ==
    IF i < Len(target) /\ col < width
    THEN scanLine(target, width, i + 1, col + 1,
                  IF target[i + 1] = " " THEN i ELSE lastSpace)
    ELSE [ i |-> i, lastSpace |-> lastSpace ]

\* the line ending before the space it wraps at, the space left out
wrapLineDroppingSpace(target, width, lineStart) ==
    LET r == scanLine(target, width, lineStart, 0, -1)
    IN  IF r.i < Len(target) /\ r.lastSpace > lineStart
        THEN [ line |-> [ start |-> lineStart, end |-> r.lastSpace ],
               i    |-> r.lastSpace + 1 ]
        ELSE [ line |-> [ start |-> lineStart, end |-> r.i ],
               i    |-> r.i ]

\* one turn of the outer loop: the line appended and the i it goes on from
wrapLine(target, width, lineStart) ==
    LET r == scanLine(target, width, lineStart, 0, -1)
    IN  IF r.i < Len(target) /\ r.lastSpace > lineStart
        THEN [ line |-> [ start |-> lineStart, end |-> r.lastSpace + 1 ],
               i    |-> r.lastSpace + 1 ]
        ELSE [ line |-> [ start |-> lineStart, end |-> r.i ],
               i    |-> r.i ]

\* NewTypingBox(state, ...) in a rectangle of some width
WrapInit ==
    /\ NoTest
    /\ graph = NoGraph
    /\ \E target \in WrapTargets, width \in WrapWidths :
         wrap = [NoWrap EXCEPT !.target = target, !.width = width,
                               !.pc = "draw"]

\* if width <= 0 || height <= 0 { return }
DrawStart ==
    /\ wrap.pc = "draw"
    /\ wrap' = [wrap EXCEPT !.pc = IF wrap.width <= 0 THEN "return"
                                                     ELSE "wrap"]
    /\ graph' = graph
    /\ Drawing

\* for i < len(target) { ... }
WrapLine ==
    /\ wrap.pc = "wrap"
    /\ wrap.i < Len(wrap.target)
    /\ LET r == wrapLine(wrap.target, wrap.width, wrap.i)
       IN  wrap' = [wrap EXCEPT !.lines = Append(@, r.line), !.i = r.i]
    /\ graph' = graph
    /\ Drawing

\* the loop is left; if len(lines) == 0 { return }
WrapEnd ==
    /\ wrap.pc = "wrap"
    /\ wrap.i >= Len(wrap.target)
    /\ wrap' = [wrap EXCEPT !.pc = IF Len(wrap.lines) = 0 THEN "return"
                                                          ELSE "wrapped"]
    /\ graph' = graph
    /\ Drawing

WrapNext == DrawStart \/ WrapLine \/ WrapEnd

\* Draw runs on the event loop, which goes on to its next statement
WrapSpec == WrapInit /\ [][WrapNext]_vars /\ WF_vars(WrapNext)

----------------------------------------------------------------------------
(* Claims about the session (SessionSpec) *)

\* C1: after any sequence of HandleChar, HandleBackspace, HandleDeleteWord
\* and Finish calls, len(Input) never exceeds len(Target).
C1_InputWithinTarget == Len(session.Input) <= Len(session.Target)

\* HandleChar was called on an unfinished session whose Input was full
C1_Witness ==
    /\ drv.op = "HandleChar"
    /\ ~drv.fin
    /\ drv.len = Len(session.Target)
    /\ Len(session.Input) = Len(session.Target)

\* C2: Finished is terminal: once the session is Finished, every later call
\* leaves Input, Started, StartTime, Finished and EndTime (the whole
\* TestState) as they were, at whatever time it is made.
C2_FinishedIsTerminal ==
    [][session.Finished => session' = session]_vars

\* a call was made on the Finished session, later than its EndTime
C2_Witness ==
    /\ session.Finished
    /\ drv.fin
    /\ drv.op \in {"HandleChar", "HandleBackspace", "HandleDeleteWord", "Finish"}
    /\ now > session.EndTime

\* C3: as long as Finish is not called from outside, a non-timed session is
\* Finished exactly when len(Input) = len(Target): it finishes in the
\* HandleChar call that types the last character and never earlier.
C3_AutoFinish ==
    (~session.TimedMode /\ ~drv.finishCalled)
        => (session.Finished <=> Len(session.Input) = Len(session.Target))

\* the HandleChar call that typed the last character of a text of several
\* characters, after some had been deleted and typed again
C3_Witness ==
    /\ ~session.TimedMode
    /\ ~drv.finishCalled
    /\ ~drv.pure
    /\ drv.op = "HandleChar"
    /\ drv.len = Len(session.Target) - 1
    /\ drv.len > 0
    /\ session.Finished

\* C10: HandleChar calls on a fresh session, no more of them than the
\* target has characters, are all accepted: Input is the runes of the
\* calls, in call order, whether or not they match the target.
C10_TypedVerbatim == drv.pure => session.Input = drv.chars

\* a whole text typed with a wrong rune in it
C10_Witness ==
    /\ drv.pure
    /\ Len(drv.chars) = Len(session.Target)
    /\ Len(drv.chars) >= 2
    /\ session.Input = drv.chars
    /\ \E i \in 1..Len(session.Target) : session.Input[i] # session.Target[i]

HandleCharStep == \E ch \in Chars : DrvHandleChar(ch)

\* C11: HandleChar on a session whose Input is as long as its target is a
\* complete no-op: Input, Started, StartTime, Finished and EndTime (the
\* whole TestState) are unchanged by the call.
C11_FullInputNoOp ==
    [][ (HandleCharStep /\ Len(session.Input) = Len(session.Target))
          => session' = session ]_vars

\* C12: a session becomes Started, with StartTime = now, exactly in the
\* first HandleChar call that appends a character to Input; a call that
\* appends nothing never sets Started, and StartTime is never modified
\* once the session is Started.
C12_StartedOnFirstAppend ==
    [][ /\ (~session.Started /\ session'.Started)
             => /\ HandleCharStep
                /\ Len(session'.Input) = Len(session.Input) + 1
                /\ session'.StartTime = now
        /\ (HandleCharStep /\ Len(session'.Input) = Len(session.Input) + 1)
             => session'.Started
        /\ session.Started
             => /\ session'.Started
                /\ session'.StartTime = session.StartTime ]_vars

\* HandleBackspace applied n times
RECURSIVE BackspaceTimes(_, _)
BackspaceTimes(s, n) ==
    IF n = 0 THEN s ELSE BackspaceTimes(HandleBackspace(s), n - 1)

\* C14: HandleBackspace on an unfinished session with non-empty Input
\* removes exactly the last character and leaves the rest of Input (and
\* every other field) unchanged; on empty Input it changes nothing;
\* applied len(Input) times or more it leaves Input empty.
C14_Backspace ==
    /\ [][ (DrvHandleBackspace /\ ~session.Finished)
             => IF Len(session.Input) = 0
                THEN session' = session
                ELSE /\ Len(session'.Input) = Len(session.Input) - 1
                     /\ \A i \in 1..Len(session'.Input) :
                          session'.Input[i] = session.Input[i]
                     /\ [session' EXCEPT !.Input = session.Input] = session
          ]_vars
    /\ [] ( ~session.Finished
              => \A n \in Len(session.Input)..(Len(session.Input) + 2) :
                   BackspaceTimes(session, n).Input = <<>> )

\* the last of several typed characters was removed by HandleBackspace
C14_Witness ==
    /\ drv.op = "HandleBackspace"
    /\ ~drv.fin
    /\ drv.len >= 2
    /\ Len(session.Input) = drv.len - 1
    /\ session.Input[1] # session.Target[1]

Max(S) == CHOOSE x \in S : \A y \in S : y <= x

\* where the last non-space character of a text is, 0 if it has none
LastNonSpace(in) == Max({0} \cup { i \in 1..Len(in) : in[i] # " " })

\* where the last space at or before position j is, 0 if there is none
LastSpaceUpTo(in, j) == Max({0} \cup { i \in 1..j : in[i] = " " })

\* the text without its trailing spaces and without the word before them
WordErased(in) == SubSeq(in, 1, LastSpaceUpTo(in, LastNonSpace(in)))

\* a running session in which the text in has been typed
TypedIn(in) ==
    [ NewTestState(in, TRUE, MaxLimit, Fields(in))
      EXCEPT !.Input = in, !.Started = TRUE, !.StartTime = 1 ]

Hello       == <<"h", "e", "l", "l", "o">>
HelloWorld  == Hello \o <<" ">> \o <<"w", "o", "r", "l", "d">>

\* C15: HandleDeleteWord on an unfinished session with non-empty Input
\* removes all trailing spaces and then all trailing non-space characters,
\* stopping at the first space or at the start of Input; the result
\* depends on Input alone, never on the target; "hello world " and
\* "hello world" both become "hello " and "hello" becomes "".
C15_DeleteWord ==
    /\ [][ (DrvHandleDeleteWord /\ ~session.Finished /\ Len(session.Input) > 0)
             => session' = [session EXCEPT !.Input = WordErased(session.Input)]
          ]_vars
    /\ [] /\ HandleDeleteWord(TypedIn(HelloWorld \o <<" ">>)).Input
               = Hello \o <<" ">>
          /\ HandleDeleteWord(TypedIn(HelloWorld)).Input = Hello \o <<" ">>
          /\ HandleDeleteWord(TypedIn(Hello)).Input = <<>>

\* HandleDeleteWord removed the last word and stopped after the space
\* before it
C15_Witness ==
    /\ drv.op = "HandleDeleteWord"
    /\ ~drv.fin
    /\ drv.len = 3
    /\ Len(session.Input) = 2
    /\ session.Input[2] = " "
    /\ session.Input # SubSeq(session.Target, 1, 2)

\* C16: Finish is idempotent: the first call on an unfinished session sets
\* Finished and EndTime = now and nothing else; every further call, at any
\* later time, leaves Finished and EndTime (the whole TestState) as the
\* first call set them.
C16_FinishIdempotent ==
    [][ DrvFinish
          => IF session.Finished
             THEN session' = session
             ELSE /\ session'.Finished
                  /\ session'.EndTime = now
                  /\ [session' EXCEPT !.Finished = FALSE,
                                      !.EndTime = session.EndTime] = session
      ]_vars

\* Finish was called again on a session finished earlier by Finish
C16_Witness ==
    /\ drv.op = "Finish"
    /\ drv.fin
    /\ drv.finishCalled
    /\ session.Finished
    /\ session.TimedMode
    /\ session.EndTime < now

\* C17: Elapsed is 0 for a session that is not started, EndTime -
\* StartTime for a (started) finished session and now - StartTime for a
\* session in progress; it is never negative, and while the session is in
\* progress it never decreases from one read to the next.
C17_Elapsed ==
    /\ [] /\ Elapsed(session, now) =
               ( IF ~session.Started THEN 0
                 ELSE IF session.Finished
                      THEN session.EndTime - session.StartTime
                      ELSE now - session.StartTime )
          /\ Elapsed(session, now) >= 0
    /\ [][ (session.Started /\ ~session.Finished /\ ~session'.Finished)
             => Elapsed(session', now') >= Elapsed(session, now) ]_vars

\* a session in progress, read some time after its first character
C17_Witness ==
    /\ session.Started
    /\ ~session.Finished
    /\ Elapsed(session, now) >= 2

\* C18: once the session is Finished, Elapsed, WPM, Accuracy, CorrectChars
\* and WrongChars return the same values after every step: whatever call
\* is made and however much time passes.
C18_FrozenMetrics ==
    [][ session.Finished
          => /\ Elapsed(session', now') = Elapsed(session, now)
             /\ WPM(session', now') = WPM(session, now)
             /\ Accuracy(session') = Accuracy(session)
             /\ CorrectChars(session') = CorrectChars(session)
             /\ WrongChars(session') = WrongChars(session) ]_vars

\* a session finished after some time of typing, read later, after a call
\* was attempted on it
C18_Witness ==
    /\ session.Finished
    /\ session.Started
    /\ drv.fin
    /\ now > session.EndTime
    /\ session.EndTime > session.StartTime
    /\ CorrectChars(session) > 0
    /\ WrongChars(session) > 0

\* C19: TimeRemaining is the configured limit for a non-timed session and
\* for a timed session that is not started, and max(0, limit - elapsed
\* seconds) for a started timed session; it is never negative and never
\* greater than the limit.
C19_TimeRemaining ==
    LET rem == TimeRemaining(session, now)
    IN  /\ (~session.TimedMode \/ ~session.Started)
             => rem = session.TimeLimitSec
        /\ (session.TimedMode /\ session.Started)
             => rem = Max({0, session.TimeLimitSec - Elapsed(session, now)})
        /\ 0 <= rem
        /\ rem <= session.TimeLimitSec

\* a timed session read after its limit has passed
C19_Witness ==
    /\ session.TimedMode
    /\ session.Started
    /\ Elapsed(session, now) > session.TimeLimitSec
    /\ TimeRemaining(session, now) = 0

\* the positions of Input that are also positions of Target
Compared(s) == { i \in 1..Len(s.Input) : i <= Len(s.Target) }

\* the session s with in as its Input
WithInput(s, in) == [s EXCEPT !.Input = in]

\* C20: CorrectChars is the number of positions i of Input, within the
\* target, with Input[i] = Target[i], and WrongChars the number of those
\* with Input[i] /= Target[i]: in every reachable state, and for every
\* input (also one longer than the target) against every target; target
\* "abc" with input "abd" gives 2 correct and 1 wrong.
C20_CorrectAndWrong ==
    /\ CorrectChars(session) =
         Cardinality({ i \in Compared(session) :
                         session.Input[i] = session.Target[i] })
    /\ WrongChars(session) =
         Cardinality({ i \in Compared(session) :
                         session.Input[i] # session.Target[i] })
    /\ drv.op = "none"
         => \A in \in Texts(MaxTarget + 1) :
              LET s == WithInput(session, in)
              IN  /\ CorrectChars(s) =
                       Cardinality({ i \in Compared(s) : in[i] = s.Target[i] })
                  /\ WrongChars(s) =
                       Cardinality({ i \in Compared(s) : in[i] # s.Target[i] })
    /\ CorrectChars(WithInput(TypedIn(<<"a", "b", "c">>), <<"a", "b", "d">>)) = 2
    /\ WrongChars(WithInput(TypedIn(<<"a", "b", "c">>), <<"a", "b", "d">>)) = 1

\* a text typed with its last character wrong
C20_Witness ==
    /\ Len(session.Input) = 3
    /\ CorrectChars(session) = 2
    /\ WrongChars(session) = 1
    /\ session.Input[3] # session.Target[3]

\* C21: WPM is 0 whenever the elapsed time is zero (so for every session
\* that is not started) and otherwise exactly (CorrectChars / 5) divided by
\* the elapsed minutes; a call that only adds a wrong character leaves WPM
\* as it was.
C21_WPM ==
    /\ [] LET wpm     == WPM(session, now)
              elapsed == Elapsed(session, now)
          IN  /\ elapsed = 0 => wpm = <<0, 1>>
              /\ ~session.Started => wpm = <<0, 1>>
              /\ elapsed # 0
                   => /\ wpm[2] > 0
                      /\ wpm[1] * 5 * elapsed
                           = wpm[2] * CorrectChars(session) * 60
                      /\ GCD(wpm[1], wpm[2]) = 1
    /\ [][ ( /\ WrongChars(session') > WrongChars(session)
              /\ CorrectChars(session') = CorrectChars(session) )
             => WPM(session', now') = WPM(session, now) ]_vars

\* a wrong character was typed, some time into a session that has correct
\* characters
C21_Witness ==
    /\ drv.op = "HandleChar"
    /\ Len(session.Input) = drv.len + 1
    /\ session.Input[Len(session.Input)] # session.Target[Len(session.Input)]
    /\ CorrectChars(session) > 0
    /\ Elapsed(session, now) > 0

\* C22: Accuracy is exactly 100 when Input is empty and otherwise
\* CorrectChars / len(Input) * 100; it always lies between 0 and 100
\* inclusive.
C22_Accuracy ==
    LET acc == Accuracy(session)
    IN  /\ Len(session.Input) = 0 => acc = <<100, 1>>
        /\ Len(session.Input) # 0
             => /\ acc[1] * Len(session.Input)
                     = acc[2] * CorrectChars(session) * 100
                /\ GCD(acc[1], acc[2]) = 1
        /\ acc[2] > 0
        /\ 0 <= acc[1]
        /\ acc[1] <= 100 * acc[2]

\* part of the target typed, some of it wrong
C22_Witness ==
    /\ Len(session.Input) = 2
    /\ Len(session.Target) = 3
    /\ CorrectChars(session) = 1
    /\ Accuracy(session) = <<50, 1>>

\* C23: a session cannot be constructed with an empty target: there is no
\* usable session whose Target is empty.
C23_NoEmptyTarget == Len(session.Target) > 0

\* C35: the session only moves forward, NotStarted -> InProgress ->
\* Finished: Started and Finished never go from TRUE back to FALSE, and
\* HandleBackspace and HandleDeleteWord, also when they delete everything
\* that was typed, leave a session in progress in progress with its
\* StartTime unchanged.
C35_ForwardOnly ==
    [][ /\ session.Started => session'.Started
        /\ session.Finished => session'.Finished
        /\ ( /\ DrvHandleBackspace \/ DrvHandleDeleteWord
             /\ session.Started
             /\ ~session.Finished )
             => /\ session'.Started
                /\ ~session'.Finished
                /\ session'.StartTime = session.StartTime ]_vars

\* everything typed was deleted, some time after the first character
C35_Witness ==
    /\ drv.op \in {"HandleBackspace", "HandleDeleteWord"}
    /\ drv.len > 0
    /\ session.Input = <<>>
    /\ session.Started
    /\ ~session.Finished
    /\ session.StartTime < now

\* p is a prefix of t
IsPrefix(p, t) == Len(p) <= Len(t) /\ p = SubSeq(t, 1, Len(p))

\* C36: HandleBackspace and HandleDeleteWord change nothing but Input:
\* Target, Started, StartTime, Finished, EndTime and the mode parameters
\* are unchanged, and the new Input is a prefix of the previous Input.
C36_DeletionFrame ==
    [][ (DrvHandleBackspace \/ DrvHandleDeleteWord)
          => /\ [session' EXCEPT !.Input = session.Input] = session
             /\ IsPrefix(session'.Input, session.Input) ]_vars

\* HandleDeleteWord removed a mistyped word after a correct one
C36_Witness ==
    /\ drv.op = "HandleDeleteWord"
    /\ ~drv.fin
    /\ drv.len = 3
    /\ session.Input = <<"a", " ">>
    /\ session.Target = <<"a", " ", "a">>
    /\ session.Started

\* C37: in every reachable state CorrectChars + WrongChars = len(Input),
\* and neither count exceeds len(Target).
C37_CountsAddUp ==
    /\ CorrectChars(session) + WrongChars(session) = Len(session.Input)
    /\ CorrectChars(session) <= Len(session.Target)
    /\ WrongChars(session) <= Len(session.Target)

\* HandleChar was called on a timed session whose text, with right and
\* wrong characters, was typed in full
C37_Witness ==
    /\ drv.op = "HandleChar"
    /\ ~drv.fin
    /\ drv.len = Len(session.Target)
    /\ Len(session.Target) = 3
    /\ CorrectChars(session) = 1
    /\ WrongChars(session) = 2

----------------------------------------------------------------------------
(* Claims about the results graph (GraphSpec) *)

\* C39: the results graph draws nothing when the snapshot series has fewer
\* than 2 entries.
C39_NoGraphBelowTwo ==
    (graph.pc = "drawn" /\ Len(graph.snapshots) < 2) => graph.drawn = Blank

\* a series of one snapshot drawn in a rectangle large enough for a graph
C39_Witness ==
    /\ graph.pc = "drawn"
    /\ Len(graph.snapshots) = 1
    /\ graph.width >= 10
    /\ graph.height >= 4

----------------------------------------------------------------------------
(* Claims about the word wrap of the typing box (WrapSpec) *)

\* the lines made so far are non-empty, at most width long, and follow one
\* another from index 0 up to i without a gap
WellWrapped ==
    /\ \A k \in 1..Len(wrap.lines) :
         /\ wrap.lines[k].start < wrap.lines[k].end
         /\ wrap.lines[k].end - wrap.lines[k].start <= wrap.width
         /\ wrap.lines[k].start = IF k = 1 THEN 0 ELSE wrap.lines[k - 1].end
    /\ wrap.i = IF wrap.lines = <<>> THEN 0
                ELSE wrap.lines[Len(wrap.lines)].end

\* every index of the target lies in exactly one line
CoveredOnce ==
    \A idx \in 0..(Len(wrap.target) - 1) :
        Cardinality({ k \in 1..Len(wrap.lines) :
                        /\ wrap.lines[k].start <= idx
                        /\ idx < wrap.lines[k].end }) = 1

\* C40: for every non-empty target and every width > 0 the word-wrap loop
\* of the typing display terminates, and its lines are non-empty, at most
\* width characters long, contiguous and in order, and cover every index
\* of the target exactly once.
C40_WordWrap ==
    /\ [] /\ wrap.pc \in {"wrap", "wrapped"} => WellWrapped
          /\ wrap.pc = "wrapped" => CoveredOnce
    /\ (wrap.pc = "draw" /\ wrap.target # <<>> /\ wrap.width > 0)
          ~> (wrap.pc = "wrapped")

\* a text wrapped at a space, its first line shorter than the width
C40_Witness ==
    /\ wrap.pc = "wrapped"
    /\ Len(wrap.lines) >= 2
    /\ wrap.lines[1].end - wrap.lines[1].start < wrap.width
    /\ wrap.target[wrap.lines[1].end] = " "

----------------------------------------------------------------------------
(* Claims about the progress sampler (SamplerSpec) *)

\* C28: the sampler appends a snapshot (elapsed seconds, WPM, wrong count)
\* only while the session is in progress: never before it is started and
\* never after it is Finished, so the series is frozen at completion.
C28_SampleOnlyInProgress ==
    [][ /\ snapshots' # snapshots
             => /\ session.Started
                /\ ~session.Finished
                /\ snapshots' = Append(snapshots, WPMSnapshot(session, now))
        /\ (~session.Started \/ session.Finished)
             => snapshots' = snapshots ]_vars

\* a finished session with a series taken while it was typed, some time
\* after its finish
C28_Witness ==
    /\ session.Finished
    /\ session.Started
    /\ now > session.EndTime
    /\ Len(snapshots) >= 1
    /\ Len(snapshots) < MaxSamples

\* C29: the snapshot series is append-only and its Elapsed values are
\* non-decreasing in series order, so the last snapshot, which the graph
\* takes as the maximum of its time axis, carries the largest elapsed time.
C29_SeriesNonDecreasing ==
    /\ [][ snapshots' # snapshots
             => /\ Len(snapshots') = Len(snapshots) + 1
                /\ SubSeq(snapshots', 1, Len(snapshots)) = snapshots ]_vars
    /\ [] /\ \A i, j \in 1..Len(snapshots) :
               (i <= j) => (snapshots[i].Elapsed <= snapshots[j].Elapsed)
          /\ (Len(snapshots) > 0)
               => ( GraphMaxTime(snapshots) =
                      Max({ snapshots[i].Elapsed : i \in 1..Len(snapshots) }) )

\* a series whose snapshots were taken at different times
C29_Witness ==
    /\ Len(snapshots) >= 2
    /\ snapshots[1].Elapsed < snapshots[Len(snapshots)].Elapsed
    /\ snapshots[1].Errors # snapshots[Len(snapshots)].Errors

----------------------------------------------------------------------------
(* Claims about the piped input (PipeSpec) *)

\* the runes of a text that are not whitespace, in order
Letters(t) == SelectSeq(t, LAMBDA c : c \notin Spaces)

\* no whitespace but single spaces, and those between two other runes
Normalized(t) ==
    /\ \A i \in 1..Len(t) : t[i] \in Spaces => t[i] = " "
    /\ Len(t) > 0 => (t[1] # " " /\ t[Len(t)] # " ")
    /\ \A i \in 1..(Len(t) - 1) : ~(t[i] = " " /\ t[i + 1] = " ")

\* the words of a text: the runs of runes between whitespace
WordCountOf(t) ==
    Cardinality({ i \in 1..Len(t) :
                    /\ t[i] \notin Spaces
                    /\ (i = 1 \/ t[i - 1] \in Spaces) })

\* C30: the normalization of piped input yields a text without leading or
\* trailing whitespace and with exactly one space between consecutive
\* words (the words themselves as piped); input that normalizes to the
\* empty text is rejected; and a text that is already normalized is
\* returned unchanged.
C30_Normalization ==
    stdin.pc = "done" /\ stdin # NoStdin
      => /\ stdin.ok <=> Letters(stdin.data) # <<>>
         /\ stdin.ok => stdin.text # <<>>
         /\ ~stdin.ok => stdin.text = <<>>
         /\ Normalized(stdin.text)
         /\ Letters(stdin.text) = Letters(stdin.data)
         /\ WordCountOf(stdin.text) = WordCountOf(stdin.data)
         /\ stdin.ok => Len(stdin.text) = Len(Letters(stdin.data))
                                           + WordCountOf(stdin.data) - 1
         /\ Normalized(stdin.data) => stdin.text = stdin.data
         /\ stdin.again => (stdin.ok /\ stdin.text = stdin.data)

\* two words with several whitespace runes between them were normalized,
\* and the text was normalized again
C30_Witness ==
    /\ stdin.pc = "done"
    /\ stdin.again
    /\ stdin.ok
    /\ stdin.text = <<"a", " ", "a">>

----------------------------------------------------------------------------
(* Claims about the application (Spec) *)

KeyRuneStep == \E ch \in KeyRunes : KeyRune(ch)

\* C4: no key event finishes a timed session, even one that types the last
\* character of the text: HandleChar, HandleBackspace and HandleDeleteWord
\* leave it unfinished, and the key handler does not call onFinish (the
\* page stays, nothing is saved, the stop channel stays open).
C4_TimedNeverAutoFinishes ==
    [][ ((KeyRuneStep \/ KeyBackspace \/ KeyCtrlW) /\ typingState.TimedMode)
          => /\ ~sessions'[currentState].Finished
             /\ page' = page
             /\ history' = history
             /\ closed' = closed
             /\ stopTimer' = stopTimer ]_vars

\* a timed session whose text is typed in full and which is still running
C4_Witness ==
    /\ page = "typing"
    /\ currentState # 0
    /\ typingState.TimedMode
    /\ Len(typingState.Input) = Len(typingState.Target)
    /\ ~typingState.Finished

\* the records saved for session s
RecordsOf(h, s) == SelectSeq(h, LAMBDA r : r.Session = s)

\* the stop channel of the timed session s was closed while s was unfinished:
\* the test was cancelled, by Escape or by the start of another test
Cancelled(s) ==
    /\ sessions[s].TimedMode
    /\ s \in closed
    /\ ~sessions[s].Finished

\* this step builds and shows the results page for session s
ShowsResults(s) ==
    /\ page' = "results"
    /\ resultsState' = s
    /\ ~(page = "results" /\ resultsState = s)

\* C5: no finish after cancel: once the stop channel of a timed session is
\* closed before its queued finish function has run, the session is never
\* Finished, no result is saved for it and no results page is shown for it.
C5_NoFinishAfterCancel ==
    [][ \A s \in Ids :
          Cancelled(s) => /\ ~sessions'[s].Finished
                          /\ RecordsOf(history', s) = RecordsOf(history, s)
                          /\ ~ShowsResults(s) ]_vars

\* C6: the coordinator finishes a started, uncancelled timed session whose
\* time is up and shows its results, exactly once: the queued function run
\* on such a session finishes it and shows the results page; once a timed
\* session is Finished nothing changes it, no further result is saved for
\* it and its results page is not built again; a queued function run on a
\* Finished session changes nothing.
C6_FinishExactlyOnce ==
    [][ \A s \in Ids : sessions[s].TimedMode =>
          /\ ( RunUpdate /\ Head(updates) = s /\ ~sessions[s].Finished
                         /\ s \notin closed )
               => ( sessions'[s].Finished /\ ShowsResults(s) )
          /\ sessions[s].Finished
               => /\ sessions'[s] \in {sessions[s], Nil}
                  /\ RecordsOf(history', s) = RecordsOf(history, s)
                  /\ ~ShowsResults(s)
          /\ ( RunUpdate /\ Head(updates) = s /\ sessions[s].Finished )
               => UNCHANGED <<history, page, resultsState, stopTimer,
                              currentState>> ]_vars

\* the steps of the event loop: key events and queued functions
LoopStep ==
    \/ KeyRuneStep \/ KeyBackspace \/ KeyCtrlW \/ KeyEscape
    \/ MenuStart \/ MenuHistory
    \/ ResultsRetry \/ ResultsLeave
    \/ HistoryEscape
    \/ RunUpdate

\* this step writes a field of a TestState (or makes one)
Mutates == \E s \in Ids : sessions'[s] \notin {sessions[s], Nil}

\* C9: every mutation of a session is a step of the event loop; the
\* goroutine only reads the session and has Finish applied by the function
\* it queues, which the event loop runs.
C9_MutationsOnEventLoop == [][ Mutates => LoopStep ]_vars

\* a timed session finished by the function its goroutine queued
C9_Witness ==
    \E s \in Ids :
      /\ sessions[s].TimedMode
      /\ sessions[s].Finished
      /\ sessions[s].Started
      /\ coord[s] = "done"
      /\ s \in closed
      /\ updates = <<>>

\* C13: in every reachable state a Finished session is Started, and its
\* StartTime is not later than its EndTime.
C13_FinishedIsStarted ==
    \A s \in Ids :
      sessions[s].Finished
        => /\ sessions[s].Started
           /\ sessions[s].StartTime <= sessions[s].EndTime

\* C24: saving a result appends exactly one record at the end of the
\* stored history and leaves every record stored before present, unchanged
\* and in its order, also when reading the existing history fails: every
\* change of the history is the append of one record.
C24_SaveAppends ==
    [][ history' # history
          => /\ Len(history') = Len(history) + 1
             /\ SubSeq(history', 1, Len(history)) = history ]_vars

\* this step runs showResults: a key typed the last character of a
\* non-timed text, or a queued finish function found its session unfinished
ShowResultsStep ==
    \/ KeyRuneStep /\ sessions'[currentState].Finished
    \/ RunUpdate /\ ~sessions[Head(updates)].Finished

\* what the session s is after showResults, whatever the save did
AfterShowResults(s) ==
    { Finish(s, now) } \cup { HandleChar(s, ch, now) : ch \in KeyRunes }

\* C25: a failed save of the result does not change the in-memory session
\* beyond the finish (Input, Started and StartTime stay, Finished and
\* EndTime are those of the finish) and does not keep the results page
\* from being built and shown for that session.
C25_FailedSaveStillShows ==
    [][ (ShowResultsStep /\ history' = history)
          => /\ page' = "results"
             /\ resultsState' = currentState
             /\ currentState' = currentState
             /\ sessions'[currentState] \in AfterShowResults(typingState)
             /\ sessions'[currentState].Finished ]_vars

\* the results page of a finished session none of whose saves succeeded
C25_Witness ==
    /\ page = "results"
    /\ resultsState = currentState
    /\ currentState # 0
    /\ typingState.Finished
    /\ typingState.Started
    /\ history = <<>>

\* C26: aborting a test with Escape does not mutate the session: Finish is
\* not called, Input and every other field stay, and the step saves no
\* history record; only the stop channel of the coordinator is closed and
\* the menu page is shown.
C26_EscapeKeepsSession ==
    [][ KeyEscape
          => /\ sessions'[currentState] = sessions[currentState]
             /\ currentState' = currentState
             /\ history' = history
             /\ page' = "menu"
             /\ updates' = updates
             /\ typingState.TimedMode
                  => (stopTimer' = 0 /\ stopTimer \in closed' \cup {0}) ]_vars

\* a timed test with typed text, left by Escape
C26_Witness ==
    /\ page = "menu"
    /\ currentState # 0
    /\ typingState.TimedMode
    /\ typingState.Started
    /\ ~typingState.Finished
    /\ Len(typingState.Input) > 0
    /\ currentState \in closed
    /\ stopTimer = 0
    /\ history = <<>>

\* this step starts a test from the menu or retries one from the results
StartStep == MenuStart \/ ResultsRetry

\* C27: starting a new test or retrying replaces the current session by a
\* fresh one: a new TestState with empty Input, Started = FALSE, Finished =
\* FALSE and zero timestamps; a retry takes the timed flag, the time limit,
\* the word count and the piped text from the previous session and nothing
\* else; the previous TestState is not written.
C27_FreshSession ==
    [][ StartStep
          => LET new == sessions'[currentState']
                 old == sessions[currentState]
             IN  /\ currentState' = allocs + 1
                 /\ new = [ NewTestState(new.Target, new.TimedMode,
                                         new.TimeLimitSec, new.WordCount)
                            EXCEPT !.PipedText = new.PipedText ]
                 /\ new.Input = <<>>
                 /\ ~new.Started
                 /\ ~new.Finished
                 /\ ResultsRetry
                      => /\ new.TimedMode = old.TimedMode
                         /\ new.TimeLimitSec = old.TimeLimitSec
                         /\ new.WordCount = old.WordCount
                         /\ new.PipedText = old.PipedText
                 /\ currentState # 0
                      => sessions'[currentState] \in {old, Nil} ]_vars

\* the fresh session of a retry, after a test that was typed and saved
C27_Witness ==
    /\ currentState = 2
    /\ page = "typing"
    /\ typingState.Input = <<>>
    /\ ~typingState.Started
    /\ ~typingState.Finished
    /\ Len(history) = 1
    /\ history[1].Session = 1

\* this step runs the finish function queued by the coordinator of a
\* session that is not the current one any more
StaleFinishStep ==
    /\ RunUpdate
    /\ Head(updates) # currentState

\* C31: the finish signal of the coordinator of one timed session affects
\* that session only: when a new test was started before the queued finish
\* function runs, the function does not finish the new session, does not
\* close the stop channel of the new coordinator and saves no result for
\* the new session (nor shows its results).
C31_FinishSignalOwnSession ==
    [][ StaleFinishStep
          => /\ sessions'[currentState] = sessions[currentState]
             /\ currentState \in closed' => currentState \in closed
             /\ stopTimer' = stopTimer
             /\ RecordsOf(history', currentState)
                  = RecordsOf(history, currentState)
             /\ ~ShowsResults(currentState) ]_vars

\* C32: a timed session that the coordinator finishes has an elapsed time
\* (EndTime - StartTime) of at least its limit: the finish function never
\* finishes a timed session that is not started or whose TimeRemaining is
\* still greater than 0.
C32_FinishedAfterLimit ==
    [][ \A s \in Ids :
          ( /\ RunUpdate
            /\ sessions[s].TimedMode
            /\ ~sessions[s].Finished
            /\ sessions'[s].Finished )
          => /\ sessions[s].Started
             /\ TimeRemaining(sessions[s], now) <= 0
             /\ sessions'[s].EndTime - sessions'[s].StartTime
                  >= sessions'[s].TimeLimitSec ]_vars

\* C33: at most one history record is saved per session, and only for a
\* session that is Finished at the moment of saving; the correct and wrong
\* counts of the record are those of the Input of the session at its
\* finish.
C33_OneRecordPerSession ==
    [][ /\ \A s \in Ids : Len(RecordsOf(history', s)) <= 1
        /\ history' # history
             => LET r == history'[Len(history')]
                    s == sessions'[r.Session]
                IN  /\ s.Finished
                    /\ r.Correct = CorrectChars(s)
                    /\ r.Wrong = WrongChars(s) ]_vars

\* the coordinators that have not returned and whose stop channel is open
LiveUncancelled == { s \in Ids : coord[s] \in Running /\ s \notin closed }

\* C34: at any time at most one countdown coordinator is live and
\* uncancelled, the one of the current test; starting a test, finishing a
\* test and escaping each close the stop channel of the coordinator there
\* was; and a stop channel is never closed twice: the channel stopTimer
\* refers to, the only one ever closed, is always an open one.
C34_OneLiveCoordinator ==
    /\ [] /\ Cardinality(LiveUncancelled) <= 1
          /\ LiveUncancelled \subseteq {stopTimer}
          /\ stopTimer # 0 => (stopTimer \notin closed
                                /\ stopTimer = currentState)
    /\ [][ ((StartStep \/ KeyEscape \/ ShowResultsStep) /\ stopTimer # 0)
             => /\ stopTimer \notin LiveUncancelled'
                /\ stopTimer' # stopTimer
                /\ coord[stopTimer] \in Running => stopTimer \in closed' ]_vars

\* the coordinator of an escaped test has not returned yet while the
\* coordinator of the next test runs
C34_Witness ==
    \E s, t \in Ids :
      /\ coord[s] \in Running
      /\ s \in closed
      /\ coord[t] \in Running
      /\ t \notin closed
      /\ stopTimer = t

\* s back to front
Reverse(s) == [ i \in 1..Len(s) |-> s[Len(s) + 1 - i] ]

\* this step builds and shows the history page
ShowHistoryStep == (MenuHistory \/ ResultsLeave) /\ page' = "history"

\* C38: the history view shows the stored records newest first, the
\* reverse of the storage order (no row at all when the file could not be
\* read), and building it leaves the stored history as it was: the
\* reversal is done on the loaded copy.
C38_HistoryNewestFirst ==
    [][ ShowHistoryStep
          => /\ history' = history
             /\ historyTable' \in { Reverse(history), <<>> } ]_vars

\* the history page showing two different records, the later one first
C38_Witness ==
    /\ page = "history"
    /\ Len(history) = 2
    /\ history[1] # history[2]
    /\ historyTable = <<history[2], history[1]>>

----------------------------------------------------------------------------
(* Claims about the application under fair scheduling (FairSpec) *)

\* the time limit of s ends before the clock of the model stops
WithinHorizon(s) ==
    sessions[s].StartTime + sessions[s].TimeLimitSec <= MaxTime

\* C7: every timed session that has been started eventually becomes
\* Finished, unless it is cancelled.
C7_TimedEventuallyFinishes ==
    \A s \in Ids :
      ( /\ sessions[s].TimedMode
        /\ sessions[s].Started
        /\ s \notin closed
        /\ WithinHorizon(s) )
      ~> ( sessions[s].Finished \/ s \in closed )

\* a timed session that ran for its whole time limit and was then finished
C7_Witness ==
    \E s \in Ids :
      /\ sessions[s].TimedMode
      /\ sessions[s].Started
      /\ sessions[s].Finished
      /\ sessions[s].EndTime >= sessions[s].StartTime + sessions[s].TimeLimitSec
      /\ page = "results"
      /\ resultsState = s

\* the test of s was cancelled before a character was typed and its
\* goroutine has not returned yet
CancelledUntyped(s) ==
    /\ coord[s] = "wait"
    /\ s \in closed
    /\ ~sessions[s].Started

\* C8: when a timed test is cancelled before any character was typed, its
\* goroutine returns, and no step of the goroutine in its wait loop changes
\* a session, the history, the page or the update queue.
C8_CancelBeforeTyping ==
    /\ \A s \in Ids : CancelledUntyped(s) ~> (coord[s] \notin Running)
    /\ [][ \A s \in Ids :
             (CoordWait(s) /\ ~sessions[s].Started)
               => /\ ~Mutates
                  /\ UNCHANGED <<history, page, resultsState, updates,
                                 currentState, stopTimer>> ]_vars

\* the goroutine of an escaped, untyped test has returned
C8_Witness ==
    \E s \in Ids :
      /\ sessions[s].TimedMode
      /\ ~sessions[s].Started
      /\ ~sessions[s].Finished
      /\ s \in closed
      /\ coord[s] = "done"
      /\ page = "menu"

====
